---- MODULE Spec2Model ----
(***************************************************************************)
(* A model of the scrape API route (src/app/api/scrape/route.ts): the      *)
(* per-URL render (scrapeWebsite), the extraction client                   *)
(* (extractEventsWithGPT) and the orchestrator (POST).                     *)
(*                                                                         *)
(* Text the code inspects character by character (URLs, hostnames,         *)
(* venues) is a sequence of one-character strings; text the code only      *)
(* passes on or hands to Date (names, dates, times) is an opaque string.   *)
(***************************************************************************)
EXTENDS Integers, Sequences, FiniteSets, TLC

(***************************************************************************)
(* Bounds of the model.                                                    *)
(***************************************************************************)
MaxUrls == 2
MaxEvents == 2

(***************************************************************************)
(* JavaScript values.                                                      *)
(***************************************************************************)
Undefined == [t |-> "undefined"]
Null == [t |-> "null"]
Str(s) == [t |-> "string", s |-> s]
Arr(items) == [t |-> "array", items |-> items]

\* ToBoolean on the values of the model: undefined, null and "" are falsy.
Truthy(v) ==
  \/ v.t = "array"
  \/ v.t = "object"
  \/ v.t = "string" /\ Len(v.s) > 0

\* a || b
Or(a, b) == IF Truthy(a) THEN a ELSE b

SeqsUpTo(S, n) == UNION {[1..k -> S] : k \in 0..n}

(***************************************************************************)
(* Strings as character sequences: String.prototype.replace with a string  *)
(* pattern, and the hostname of new URL(url).                              *)
(***************************************************************************)
IsPrefix(p, s) == Len(p) <= Len(s) /\ SubSeq(s, 1, Len(p)) = p

\* The 1-based position of the first occurrence of pat in s, 0 when none.
IndexOf(s, pat) ==
  LET hits == {k \in 1..(Len(s) - Len(pat) + 1) :
                 /\ pat # <<>> => s[k] = pat[1]
                 /\ SubSeq(s, k, k + Len(pat) - 1) = pat}
  IN  IF hits = {} THEN 0 ELSE CHOOSE k \in hits : \A j \in hits : k <= j

\* s.replace(pat, rep) with a string pattern: the first occurrence only.
replace(s, pat, rep) ==
  LET k == IndexOf(s, pat)
  IN  IF k = 0 THEN s
      ELSE SubSeq(s, 1, k - 1) \o rep \o SubSeq(s, k + Len(pat), Len(s))

Scheme == <<"h", "t", "t", "p", "s", ":", "/", "/">>
Www == <<"w", "w", "w", ".">>

\* The scheme of a data: url, which has no host.
DataScheme == <<"d", "a", "t", "a", ":">>

\* new URL(url) throws a TypeError on a string that is no absolute URL.
ValidURL(url) ==
  \/ /\ IsPrefix(Scheme, url)
     /\ Len(url) > Len(Scheme)
     /\ url[Len(Scheme) + 1] # "/"
  \/ IsPrefix(DataScheme, url)

\* new URL(url).hostname, for a valid url: what lies between "//" and the
\* next "/"; the empty string for a data: url.
hostname(url) ==
  IF IsPrefix(DataScheme, url) THEN <<>>
  ELSE LET rest == SubSeq(url, Len(Scheme) + 1, Len(url))
           slash == IndexOf(rest, <<"/">>)
       IN  IF slash = 0 THEN rest ELSE SubSeq(rest, 1, slash - 1)

(***************************************************************************)
(* The URLs of the model.                                                  *)
(***************************************************************************)
UrlBlueNote ==
  Scheme \o <<"w", "w", "w", ".", "b", "l", "u", "e", "n", "o", "t", "e", ".", "n", "e", "t",
              "/", "n", "e", "w", "y", "o", "r", "k", "/">>
UrlPlain == Scheme \o <<"j", "a", "z", "z", ".", "o", "r", "g", "/">>
UrlInnerWww == Scheme \o <<"l", "i", "v", "e", ".", "w", "w", "w", ".", "c", "l", "u", "b", "/">>
UrlTailWww == Scheme \o <<"m", "y", "w", "w", "w", ".", "c", "o", "m">>
UrlRelative == <<"j", "a", "z", "z", ".", "o", "r", "g">>
UrlData == DataScheme \o <<"t", "e", "x", "t", "/", "h", "t", "m", "l", ",", "J", "a", "z", "z">>

(***************************************************************************)
(* The untyped reply of the model and its normalization                    *)
(* (extractEventsWithGPT, the part after the request).                     *)
(***************************************************************************)
\* obj.f on a parsed JSON value: undefined when obj is no object or has no f.
Get(obj, f) == IF obj.t = "object" /\ f \in DOMAIN obj THEN obj[f] ELSE Undefined

\* An untyped event object of the model's array.
RawEvent(venue, eventName, name, title, date, time, price, description, url) ==
  [t |-> "object", venue |-> venue, eventName |-> eventName, name |-> name,
   title |-> title, date |-> date, time |-> time, price |-> price,
   description |-> description, url |-> url]

\* Reading a property of null or undefined throws a TypeError; the venue
\* default evaluates new URL(url), which throws on an invalid url.
normalizeThrows(event, url) ==
  \/ event.t \in {"null", "undefined"}
  \/ ~Truthy(Get(event, "venue")) /\ ~ValidURL(url)

\* A callback that looks at title before name: the variant of normalizeEvent
\* against which C11 is checked.
normalizeEventTitleFirst(event, url) ==
  [venue |-> Or(Get(event, "venue"), Str(replace(hostname(url), Www, <<>>))),
   eventName |-> Or(Or(Or(Get(event, "eventName"), Get(event, "title")),
                       Get(event, "name")), Str("Unknown Event")),
   date |-> Or(Get(event, "date"), Str("TBA")),
   time |-> Or(Get(event, "time"), Str("TBA")),
   price |-> Get(event, "price"),
   description |-> Get(event, "description"),
   url |-> Or(Get(event, "url"), Str(url))]

\* The callback of events.map, for an event on which it does not throw.
normalizeEvent(event, url) ==
  [venue |-> Or(Get(event, "venue"), Str(replace(hostname(url), Www, <<>>))),
   eventName |-> Or(Or(Or(Get(event, "eventName"), Get(event, "name")),
                       Get(event, "title")), Str("Unknown Event")),
   date |-> Or(Get(event, "date"), Str("TBA")),
   time |-> Or(Get(event, "time"), Str("TBA")),
   price |-> Get(event, "price"),
   description |-> Get(event, "description"),
   url |-> Or(Get(event, "url"), Str(url))]

\* A choice that looks under data before events: the variant of chosenArray
\* against which C13 is checked.
chosenArrayDataFirst(parsed) ==
  Or(Or(Get(parsed, "data"), Get(parsed, "events")), Arr(<<>>))

\* parsed.events || parsed.data || []
chosenArray(parsed) == Or(Or(Get(parsed, "events"), Get(parsed, "data")), Arr(<<>>))

\* What the model's request produced: the request failed, the reply has no
\* content, the content is no JSON, or the content parses to a value.
RequestFailed == [kind |-> "requestFailed"]
NoContent == [kind |-> "noContent"]
InvalidJSON == [kind |-> "invalidJSON"]
Json(value) == [kind |-> "json", value |-> value]

\* How a call ends: it returns a value, or it raises.
Returned(v) == [raised |-> FALSE, value |-> v]
Raised == [raised |-> TRUE]

\* A try block in which the callback of map never throws (it falls back on
\* the defaults for an element it cannot read): the variant of extractThrows
\* against which C20 is checked.
extractThrowsOutsideMap(reply, url) ==
  \/ reply.kind \in {"requestFailed", "invalidJSON"}
  \/ /\ reply.kind = "json"
     /\ \/ reply.value.t \in {"null", "undefined"}
        \/ chosenArray(reply.value).t # "array"

\* Whether a statement of the try block throws: the request rejects,
\* JSON.parse throws, a property of null is read, events has no map, or
\* the callback of map throws.
extractThrows(reply, url) ==
  \/ reply.kind \in {"requestFailed", "invalidJSON"}
  \/ /\ reply.kind = "json"
     /\ \/ reply.value.t \in {"null", "undefined"}
        \/ chosenArray(reply.value).t # "array"
        \/ \E k \in DOMAIN chosenArray(reply.value).items :
              normalizeThrows(chosenArray(reply.value).items[k], url)

\* events.map(callback)
map(events, url) == [k \in 1..Len(events) |-> normalizeEvent(events[k], url)]

\* The try block: [] when the reply has no content (if (!result) return []).
extractTry(reply, url) ==
  IF extractThrows(reply, url) THEN Raised
  ELSE IF reply.kind = "noContent" THEN Returned(<<>>)
  ELSE Returned(map(chosenArray(reply.value).items, url))

\* A catch block that logs the error and throws it again: the variant of
\* extractCatch against which C7 is checked.
extractRethrow(reply, url) == Raised

\* The catch block: the error is logged and [] is returned.
extractCatch(reply, url) == Returned(<<>>)

extractEventsWithGPT(reply, url) ==
  IF extractTry(reply, url).raised THEN extractCatch(reply, url) ELSE extractTry(reply, url)

(***************************************************************************)
(* The comparator of the final sort and Array.prototype.sort.              *)
(***************************************************************************)
NaN == [nan |-> TRUE]
Num(n) == [nan |-> FALSE, n |-> n]

\* new Date(s).getTime() for the date strings of the model, in days; a
\* string that is no date gives an Invalid Date, whose time is NaN.
getTime(date) ==
  IF date.t # "string" THEN NaN
  ELSE CASE date.s = "March 1, 2027" -> Num(1)
         [] date.s = "3/1/2027" -> Num(1)
         [] date.s = "March 2, 2027" -> Num(2)
         [] date.s = "March 3, 2027" -> Num(3)
         [] OTHER -> NaN

\* (a, b) => dateA.getTime() - dateB.getTime(); new Date never throws, so
\* the catch branch is never taken.
compareFn(a, b) ==
  IF getTime(a.date).nan \/ getTime(b.date).nan THEN NaN
  ELSE Num(getTime(a.date).n - getTime(b.date).n)

\* The engine's comparison of two array elements: a NaN result counts as +0.
\* The elements of the aggregate carry where they came from (src, idx).
SortCompare(x, y) ==
  LET v == compareFn(x.ev, y.ev) IN IF v.nan THEN 0 ELSE v.n

(***************************************************************************)
(* Array.prototype.sort as the engine of the deployment runs it (Node 18+, *)
(* V8's TimSort).  The work array is a sequence, read and written through  *)
(* At and Put with the algorithm's indices (from 0).                       *)
(***************************************************************************)
Min(x, y) == IF x < y THEN x ELSE y
Max(x, y) == IF x > y THEN x ELSE y

\* a[k] and a[k] = v, for the algorithm's indices (from 0) on a sequence.
At(a, k) == a[k + 1]
Put(a, k, v) == [a EXCEPT ![k + 1] = v]

\* Copy src[from .. from+len-1] to dst[to .. to+len-1]; all of src is read first.
Copy(src, from, dst, to, len) ==
  SubSeq(dst, 1, to) \o SubSeq(src, from + 1, from + len) \o SubSeq(dst, to + len + 1, Len(dst))

\* The elements of s from the last to the first, by halves.
RECURSIVE Reversed(_)
Reversed(s) ==
  IF Len(s) <= 1 THEN s
  ELSE Reversed(SubSeq(s, (Len(s) \div 2) + 1, Len(s))) \o Reversed(SubSeq(s, 1, Len(s) \div 2))

ReverseRange(a, from, to) ==
  SubSeq(a, 1, from) \o Reversed(SubSeq(a, from + 1, to)) \o SubSeq(a, to + 1, Len(a))

RECURSIVE ComputeMinRunLength(_, _)
ComputeMinRunLength(n, r) ==
  IF n >= 64 THEN ComputeMinRunLength(n \div 2, Max(r, n % 2)) ELSE n + r

\* The number of doublings that cover n loop iterations.
RECURSIVE Log2Ceil(_)
Log2Ceil(n) == IF n <= 1 THEN 0 ELSE 1 + Log2Ceil((n + 1) \div 2)

\* The scan of CountAndMakeRun: the run goes on while the order of a[idx]
\* against a[idx - 1] is < 0 (descending run) or >= 0 (ascending run).
RunGoesOn(isDescending, order) == IF isDescending THEN order < 0 ELSE order >= 0

\* The index at which the scan from idx stops: the first index at which the
\* run does not go on, high when it goes on to the end.
RunEnd(a, idx, high, isDescending) ==
  CHOOSE end \in idx..high :
    /\ end < high => ~RunGoesOn(isDescending, SortCompare(At(a, end), At(a, end - 1)))
    /\ \A k \in idx..(end - 1) : RunGoesOn(isDescending, SortCompare(At(a, k), At(a, k - 1)))

\* The run found, reversed in place when it is descending.
MakeRun(a, lowArg, isDescending, end) ==
  [a |-> IF isDescending THEN ReverseRange(a, lowArg, end) ELSE a,
   runLength |-> end - lowArg]

RunOf(a, lowArg, high, isDescending) ==
  MakeRun(a, lowArg, isDescending, RunEnd(a, lowArg + 2, high, isDescending))

CountAndMakeRun(a, lowArg, high) ==
  IF lowArg + 1 = high THEN [a |-> a, runLength |-> 1]
  ELSE RunOf(a, lowArg, high, SortCompare(At(a, lowArg + 1), At(a, lowArg)) < 0)

\* The binary search of BinaryInsertionSort: where the pivot goes.
RECURSIVE InsertionPoint(_, _, _, _)
InsertionPoint(a, pivot, left, right) ==
  IF left >= right THEN left
  ELSE IF SortCompare(pivot, At(a, left + ((right - left) \div 2))) < 0
       THEN InsertionPoint(a, pivot, left, left + ((right - left) \div 2))
       ELSE InsertionPoint(a, pivot, left + ((right - left) \div 2) + 1, right)

\* a[left .. start-1] moves up by one and the pivot a[start] goes to a[left].
InsertAt(a, start, left) == Put(Copy(a, left, a, left + 1, start - left), left, At(a, start))

\* One iteration of the loop of BinaryInsertionSort on a loop state
\* (a, start): a[start] is put in its place, ++start.
InsertOne(st, low) ==
  [a |-> InsertAt(st.a, st.start, InsertionPoint(st.a, At(st.a, st.start), low, st.start)),
   start |-> st.start + 1]

\* The loop, which ends when start reaches high: 2^k iterations at most.
RECURSIVE InsertRun(_, _, _, _)
InsertRun(st, low, high, k) ==
  IF st.start >= high THEN st
  ELSE IF k = 0 THEN InsertOne(st, low)
  ELSE InsertRun(InsertRun(st, low, high, k - 1), low, high, k - 1)

BinaryInsertionSort(a, low, startArg, high) ==
  InsertRun([a |-> a, start |-> IF low = startArg THEN startArg + 1 ELSE startArg],
            low, high, Log2Ceil(high - low)).a

(***************************************************************************)
(* Galloping.  GallopLeft returns k with a[base+k-1] < key <= a[base+k],   *)
(* GallopRight returns k with a[base+k-1] <= key < a[base+k].              *)
(***************************************************************************)
\* The order a probe of the exponential search looks at: GallopRight
\* compares the key with the element, GallopLeft the element with the key.
Probe(arr, key, k, keyFirst) ==
  IF keyFirst THEN SortCompare(key, At(arr, k)) ELSE SortCompare(At(arr, k), key)

\* GallopLeft goes on rightwards while a < key and leftwards while
\* a >= key; GallopRight leftwards while key < a, rightwards while key >= a.
GallopGoesOn(dir, keyFirst, order) ==
  IF keyFirst = (dir < 0) THEN order < 0 ELSE order >= 0

\* The exponential search: it probes the offsets 1, 3, 7, ... from at.
RECURSIVE GallopScan(_, _, _, _, _, _, _, _)
GallopScan(arr, key, at, dir, keyFirst, lastOfs, offset, maxOfs) ==
  IF offset >= maxOfs THEN [lastOfs |-> lastOfs, offset |-> maxOfs]
  ELSE IF ~GallopGoesOn(dir, keyFirst, Probe(arr, key, at + dir * offset, keyFirst))
       THEN [lastOfs |-> lastOfs, offset |-> offset]
       ELSE GallopScan(arr, key, at, dir, keyFirst, offset, 2 * offset + 1, maxOfs)

RECURSIVE GallopLeftSearch(_, _, _, _, _)
GallopLeftSearch(arr, key, base, lastOfs, offset) ==
  IF lastOfs >= offset THEN offset
  ELSE IF SortCompare(At(arr, base + lastOfs + ((offset - lastOfs) \div 2)), key) < 0
       THEN GallopLeftSearch(arr, key, base, lastOfs + ((offset - lastOfs) \div 2) + 1, offset)
       ELSE GallopLeftSearch(arr, key, base, lastOfs, lastOfs + ((offset - lastOfs) \div 2))

RECURSIVE GallopRightSearch(_, _, _, _, _)
GallopRightSearch(arr, key, base, lastOfs, offset) ==
  IF lastOfs >= offset THEN offset
  ELSE IF SortCompare(key, At(arr, base + lastOfs + ((offset - lastOfs) \div 2))) < 0
       THEN GallopRightSearch(arr, key, base, lastOfs, lastOfs + ((offset - lastOfs) \div 2))
       ELSE GallopRightSearch(arr, key, base, lastOfs + ((offset - lastOfs) \div 2) + 1, offset)

\* The offsets found by the exponential search, counted from base: after a
\* scan to the right (lastOfs + hint, offset + hint), after a scan to the
\* left (hint - offset, hint - lastOfs); then ++lastOfs.
GallopLow(scan, hint, dir) ==
  IF dir > 0 THEN scan.lastOfs + hint + 1 ELSE hint - scan.offset + 1

GallopHigh(scan, hint, dir) ==
  IF dir > 0 THEN scan.offset + hint ELSE hint - scan.lastOfs

GallopLeftIn(arr, key, base, hint, dir, scan) ==
  GallopLeftSearch(arr, key, base, GallopLow(scan, hint, dir), GallopHigh(scan, hint, dir))

GallopLeft(arr, key, base, length, hint) ==
  IF SortCompare(At(arr, base + hint), key) < 0
  THEN GallopLeftIn(arr, key, base, hint, 1,
                    GallopScan(arr, key, base + hint, 1, FALSE, 0, 1, length - hint))
  ELSE GallopLeftIn(arr, key, base, hint, -1,
                    GallopScan(arr, key, base + hint, -1, FALSE, 0, 1, hint + 1))

GallopRightIn(arr, key, base, hint, dir, scan) ==
  GallopRightSearch(arr, key, base, GallopLow(scan, hint, dir), GallopHigh(scan, hint, dir))

GallopRight(arr, key, base, length, hint) ==
  IF SortCompare(key, At(arr, base + hint)) < 0
  THEN GallopRightIn(arr, key, base, hint, -1,
                     GallopScan(arr, key, base + hint, -1, TRUE, 0, 1, hint + 1))
  ELSE GallopRightIn(arr, key, base, hint, 1,
                     GallopScan(arr, key, base + hint, 1, TRUE, 0, 1, length - hint))

(***************************************************************************)
(* Merging.  A merge is run as a loop of steps on a merge state m: the     *)
(* work array a, temp, the cursors, the remaining lengths, the local       *)
(* minGallop, the value stored in the sort state, the win counters, and    *)
(* pc: "step" in the one-pair-at-a-time loop, "gallop" in the galloping    *)
(* loop, "done" once the merge has returned.                               *)
(***************************************************************************)
\* Leaving the one-pair-at-a-time loop for the galloping loop: ++minGallop.
EnterGallop(m) ==
  [m EXCEPT !.pc = "gallop", !.minGallop = m.minGallop + 1, !.firstIteration = TRUE]

\* Leaving the galloping loop: ++minGallop, stored, and the counters restart.
LeaveGallop(m) ==
  [m EXCEPT !.pc = "step", !.minGallop = m.minGallop + 1, !.stored = m.minGallop + 1,
            !.nA = 0, !.nB = 0]

\* The head of one galloping iteration: minGallop = max(1, minGallop - 1), stored.
GallopHead(m) ==
  [m EXCEPT !.minGallop = Max(1, m.minGallop - 1), !.stored = Max(1, m.minGallop - 1),
            !.firstIteration = FALSE]

\* The galloping loop goes on while a run wins at least 7 times in a row.
KeepsGalloping(m) == m.nA >= 7 \/ m.nB >= 7 \/ m.firstIteration

(***************************************************************************)
(* MergeLow: merges run A (copied to temp) with the run B that follows it, *)
(* from the left.                                                          *)
(***************************************************************************)
MergeLowSucceed(m) ==
  [m EXCEPT !.pc = "done",
            !.a = IF m.lengthA > 0 THEN Copy(m.temp, m.cursorTemp, m.a, m.dest, m.lengthA)
                  ELSE m.a]

MergeLowCopyB(m) ==
  [m EXCEPT !.pc = "done",
            !.a = Put(Copy(m.a, m.cursorB, m.a, m.dest, m.lengthB), m.dest + m.lengthB,
                      At(m.temp, m.cursorTemp))]

\* a[dest++] = a[cursorB++]; --lengthB
TakeB(m) ==
  [m EXCEPT !.a = Put(m.a, m.dest, At(m.a, m.cursorB)),
            !.dest = m.dest + 1, !.cursorB = m.cursorB + 1, !.lengthB = m.lengthB - 1]

\* a[dest++] = temp[cursorTemp++]; --lengthA
TakeA(m) ==
  [m EXCEPT !.a = Put(m.a, m.dest, At(m.temp, m.cursorTemp)),
            !.dest = m.dest + 1, !.cursorTemp = m.cursorTemp + 1, !.lengthA = m.lengthA - 1]

\* The k elements of temp that galloping found to come first are copied; nA = k.
TakeRunA(m, k) ==
  [m EXCEPT !.a = Copy(m.temp, m.cursorTemp, m.a, m.dest, k),
            !.dest = m.dest + k, !.cursorTemp = m.cursorTemp + k,
            !.lengthA = m.lengthA - k, !.nA = k]

\* The k elements of B that galloping found to come first are copied; nB = k.
TakeRunB(m, k) ==
  [m EXCEPT !.a = Copy(m.a, m.cursorB, m.a, m.dest, k),
            !.dest = m.dest + k, !.cursorB = m.cursorB + k,
            !.lengthB = m.lengthB - k, !.nB = k]

\* One iteration of the one-pair-at-a-time loop: after B's element was taken,
\* after A's element was taken, and the iteration.
MergeLowWonB(m) ==
  IF m.lengthB = 0 THEN MergeLowSucceed(m)
  ELSE IF m.nB >= m.minGallop THEN EnterGallop(m) ELSE m

MergeLowWonA(m) ==
  IF m.lengthA = 1 THEN MergeLowCopyB(m)
  ELSE IF m.nA >= m.minGallop THEN EnterGallop(m) ELSE m

MergeLowStep(m) ==
  IF SortCompare(At(m.a, m.cursorB), At(m.temp, m.cursorTemp)) < 0
  THEN MergeLowWonB([TakeB(m) EXCEPT !.nB = m.nB + 1, !.nA = 0])
  ELSE MergeLowWonA([TakeA(m) EXCEPT !.nA = m.nA + 1, !.nB = 0])

\* One iteration of the galloping loop, from its end to its head: after the
\* last element of A was taken, after the gallop in B, the gallop in B,
\* after the gallop in A, and the iteration.
MergeLowGallopEnd(m) == IF m.lengthA = 1 THEN MergeLowCopyB(m) ELSE m

MergeLowAfterB(m) ==
  IF m.nB > 0 /\ m.lengthB = 0 THEN MergeLowSucceed(m) ELSE MergeLowGallopEnd(TakeA(m))

MergeLowGallopB(m) ==
  IF m.lengthB = 0 THEN MergeLowSucceed(m)
  ELSE MergeLowAfterB(TakeRunB(m, GallopLeft(m.a, At(m.temp, m.cursorTemp), m.cursorB,
                                            m.lengthB, 0)))

MergeLowAfterA(m) ==
  IF m.nA > 0 /\ m.lengthA = 1 THEN MergeLowCopyB(m)
  ELSE IF m.nA > 0 /\ m.lengthA = 0 THEN MergeLowSucceed(m)
  ELSE MergeLowGallopB(TakeB(m))

MergeLowGallopA(m) ==
  MergeLowAfterA(TakeRunA(m, GallopRight(m.temp, At(m.a, m.cursorB), m.cursorTemp,
                                         m.lengthA, 0)))

MergeLowGallop(m) ==
  IF ~KeepsGalloping(m) THEN LeaveGallop(m) ELSE MergeLowGallopA(GallopHead(m))

\* The loops of MergeLow, 2^k iterations at most; a merge that has returned
\* stays as it is.
RECURSIVE MergeLowRun(_, _)
MergeLowRun(m, k) ==
  IF m.pc = "done" THEN m
  ELSE IF k = 0 THEN (IF m.pc = "step" THEN MergeLowStep(m) ELSE MergeLowGallop(m))
  ELSE MergeLowRun(MergeLowRun(m, k - 1), k - 1)

MergeLowFrom(m, k) ==
  IF m.lengthB = 0 THEN MergeLowSucceed(m)
  ELSE IF m.lengthA = 1 THEN MergeLowCopyB(m)
  ELSE MergeLowRun(m, k)

MergeLow(a, minGallop, baseA, lengthAArg, baseB, lengthBArg) ==
  MergeLowFrom(TakeB([a |-> a, temp |-> SubSeq(a, baseA + 1, baseA + lengthAArg),
                      dest |-> baseA, cursorTemp |-> 0, cursorB |-> baseB,
                      lengthA |-> lengthAArg, lengthB |-> lengthBArg,
                      minGallop |-> minGallop, stored |-> minGallop,
                      nA |-> 0, nB |-> 0, firstIteration |-> FALSE, pc |-> "step"]),
               1 + Log2Ceil(lengthAArg + lengthBArg))

(***************************************************************************)
(* MergeHigh: merges run A with the run B that follows it (copied to       *)
(* temp), from the right.  The merge state has cursorA in place of         *)
(* cursorB, and baseA for the galloping in A.                              *)
(***************************************************************************)
MergeHighSucceed(m) ==
  [m EXCEPT !.pc = "done",
            !.a = IF m.lengthB > 0
                  THEN Copy(m.temp, 0, m.a, m.dest - (m.lengthB - 1), m.lengthB)
                  ELSE m.a]

MergeHighCopyA(m) ==
  [m EXCEPT !.pc = "done",
            !.a = Put(Copy(m.a, m.cursorA - m.lengthA + 1, m.a, m.dest - m.lengthA + 1,
                           m.lengthA),
                      m.dest - m.lengthA, At(m.temp, m.cursorTemp))]

\* a[dest--] = a[cursorA--]; --lengthA
TakeHighA(m) ==
  [m EXCEPT !.a = Put(m.a, m.dest, At(m.a, m.cursorA)),
            !.dest = m.dest - 1, !.cursorA = m.cursorA - 1, !.lengthA = m.lengthA - 1]

\* a[dest--] = temp[cursorTemp--]; --lengthB
TakeHighB(m) ==
  [m EXCEPT !.a = Put(m.a, m.dest, At(m.temp, m.cursorTemp)),
            !.dest = m.dest - 1, !.cursorTemp = m.cursorTemp - 1, !.lengthB = m.lengthB - 1]

\* The last k elements of A that galloping found to come last are copied; nA = k.
TakeHighRunA(m, k) ==
  [m EXCEPT !.a = Copy(m.a, m.cursorA - k + 1, m.a, m.dest - k + 1, k),
            !.dest = m.dest - k, !.cursorA = m.cursorA - k,
            !.lengthA = m.lengthA - k, !.nA = k]

\* The last k elements of temp that galloping found to come last are copied; nB = k.
TakeHighRunB(m, k) ==
  [m EXCEPT !.a = Copy(m.temp, m.cursorTemp - k + 1, m.a, m.dest - k + 1, k),
            !.dest = m.dest - k, !.cursorTemp = m.cursorTemp - k,
            !.lengthB = m.lengthB - k, !.nB = k]

MergeHighWonA(m) ==
  IF m.lengthA = 0 THEN MergeHighSucceed(m)
  ELSE IF m.nA >= m.minGallop THEN EnterGallop(m) ELSE m

MergeHighWonB(m) ==
  IF m.lengthB = 1 THEN MergeHighCopyA(m)
  ELSE IF m.nB >= m.minGallop THEN EnterGallop(m) ELSE m

MergeHighStep(m) ==
  IF SortCompare(At(m.temp, m.cursorTemp), At(m.a, m.cursorA)) < 0
  THEN MergeHighWonA([TakeHighA(m) EXCEPT !.nA = m.nA + 1, !.nB = 0])
  ELSE MergeHighWonB([TakeHighB(m) EXCEPT !.nB = m.nB + 1, !.nA = 0])

MergeHighGallopEnd(m) == IF m.lengthA = 0 THEN MergeHighSucceed(m) ELSE m

MergeHighAfterB(m) ==
  IF m.nB > 0 /\ m.lengthB = 1 THEN MergeHighCopyA(m)
  ELSE IF m.nB > 0 /\ m.lengthB = 0 THEN MergeHighSucceed(m)
  ELSE MergeHighGallopEnd(TakeHighA(m))

MergeHighGallopB(m) ==
  IF m.lengthB = 1 THEN MergeHighCopyA(m)
  ELSE MergeHighAfterB(TakeHighRunB(m,
         m.lengthB - GallopLeft(m.temp, At(m.a, m.cursorA), 0, m.lengthB, m.lengthB - 1)))

MergeHighAfterA(m) ==
  IF m.nA > 0 /\ m.lengthA = 0 THEN MergeHighSucceed(m) ELSE MergeHighGallopB(TakeHighB(m))

MergeHighGallopA(m) ==
  MergeHighAfterA(TakeHighRunA(m,
    m.lengthA - GallopRight(m.a, At(m.temp, m.cursorTemp), m.baseA, m.lengthA,
                            m.lengthA - 1)))

MergeHighGallop(m) ==
  IF ~KeepsGalloping(m) THEN LeaveGallop(m) ELSE MergeHighGallopA(GallopHead(m))

RECURSIVE MergeHighRun(_, _)
MergeHighRun(m, k) ==
  IF m.pc = "done" THEN m
  ELSE IF k = 0 THEN (IF m.pc = "step" THEN MergeHighStep(m) ELSE MergeHighGallop(m))
  ELSE MergeHighRun(MergeHighRun(m, k - 1), k - 1)

MergeHighFrom(m, k) ==
  IF m.lengthA = 0 THEN MergeHighSucceed(m)
  ELSE IF m.lengthB = 1 THEN MergeHighCopyA(m)
  ELSE MergeHighRun(m, k)

MergeHigh(a, minGallop, baseA, lengthAArg, baseB, lengthBArg) ==
  MergeHighFrom(TakeHighA([a |-> a, temp |-> SubSeq(a, baseB + 1, baseB + lengthBArg),
                           dest |-> baseB + lengthBArg - 1, cursorTemp |-> lengthBArg - 1,
                           cursorA |-> baseA + lengthAArg - 1, baseA |-> baseA,
                           lengthA |-> lengthAArg, lengthB |-> lengthBArg,
                           minGallop |-> minGallop, stored |-> minGallop,
                           nA |-> 0, nB |-> 0, firstIteration |-> FALSE, pc |-> "step"]),
                1 + Log2Ceil(lengthAArg + lengthBArg))

(***************************************************************************)
(* The run stack and the sort.  A sort state st holds the work array a,    *)
(* the pending runs (base, length) and minGallop.                          *)
(***************************************************************************)
\* The sort state a merge leaves.
Merged(runs, m) == [a |-> m.a, runs |-> runs, minGallop |-> m.stored]

\* The end of MergeAt: the elements of B that are already in place are left
\* out (lengthB), and the rest is merged from the shorter side.
MergeTrimmed(st, runs, baseA, lengthA, baseB, lengthB) ==
  IF lengthB = 0 THEN [st EXCEPT !.runs = runs]
  ELSE IF lengthA <= lengthB
       THEN Merged(runs, MergeLow(st.a, st.minGallop, baseA, lengthA, baseB, lengthB))
       ELSE Merged(runs, MergeHigh(st.a, st.minGallop, baseA, lengthA, baseB, lengthB))

\* The middle of MergeAt: the first k elements of A are already in place.
MergeTrim(st, runs, baseA, lengthA, runB) ==
  IF lengthA = 0 THEN [st EXCEPT !.runs = runs]
  ELSE MergeTrimmed(st, runs, baseA, lengthA, runB.base,
                    GallopLeft(st.a, At(st.a, baseA + lengthA - 1), runB.base, runB.length,
                               runB.length - 1))

MergeRuns(st, runs, runA, runB, k) ==
  MergeTrim(st, runs, runA.base + k, runA.length - k, runB)

\* The stack of runs after the runs i and i + 1 (from 0) became one.
RunsMerged(runs, i) ==
  SubSeq(runs, 1, i)
    \o <<[base |-> runs[i + 1].base, length |-> runs[i + 1].length + runs[i + 2].length]>>
    \o SubSeq(runs, i + 3, Len(runs))

\* MergeAt(i), with i counted from 0 as in the engine: runs[i + 1] is run i.
MergeAt(st, i) ==
  MergeRuns(st, RunsMerged(st.runs, i), st.runs[i + 1], st.runs[i + 2],
            GallopRight(st.a, At(st.a, st.runs[i + 2].base), st.runs[i + 1].base,
                        st.runs[i + 1].length, 0))

\* RunInvariantEstablished(pendingRuns, n), n counted from 0.
RunInvariantEstablished(runs, n) ==
  IF n < 2 THEN TRUE
  ELSE runs[n - 1].length > runs[n].length + runs[n + 1].length

\* The run to merge, for the last but one run n (from 0): n - 1 when the
\* run before it is shorter than the run after it.
MergeIndex(runs, n) ==
  IF n > 0 /\ runs[n].length < runs[n + 2].length THEN n - 1 ELSE n

RECURSIVE MergeCollapse(_)
MergeCollapse(st) ==
  IF Len(st.runs) <= 1 THEN st
  ELSE IF \/ ~RunInvariantEstablished(st.runs, Len(st.runs) - 1)
          \/ ~RunInvariantEstablished(st.runs, Len(st.runs) - 2)
       THEN MergeCollapse(MergeAt(st, MergeIndex(st.runs, Len(st.runs) - 2)))
       ELSE IF st.runs[Len(st.runs) - 1].length <= st.runs[Len(st.runs)].length
            THEN MergeCollapse(MergeAt(st, Len(st.runs) - 2))
            ELSE st

RECURSIVE MergeForceCollapse(_)
MergeForceCollapse(st) ==
  IF Len(st.runs) <= 1 THEN st
  ELSE MergeForceCollapse(MergeAt(st, MergeIndex(st.runs, Len(st.runs) - 2)))

RECURSIVE TimSortLoop(_, _, _, _)

\* The end of one iteration of the main loop: the run is pushed, the stack collapsed.
PushRun(st, low, remaining, minRunLength, a, len) ==
  TimSortLoop(MergeCollapse([st EXCEPT !.a = a,
                                       !.runs = Append(st.runs, [base |-> low, length |-> len])]),
              low + len, remaining - len, minRunLength)

\* A run shorter than minRunLength is extended by binary insertion.
ExtendRun(st, low, remaining, minRunLength, run) ==
  IF run.runLength < minRunLength
  THEN PushRun(st, low, remaining, minRunLength,
               BinaryInsertionSort(run.a, low, low + run.runLength,
                                   low + Min(minRunLength, remaining)),
               Min(minRunLength, remaining))
  ELSE PushRun(st, low, remaining, minRunLength, run.a, run.runLength)

TimSortLoop(st, low, remaining, minRunLength) ==
  IF remaining = 0 THEN MergeForceCollapse(st)
  ELSE ExtendRun(st, low, remaining, minRunLength,
                 CountAndMakeRun(st.a, low, low + remaining))

\* allEvents.sort(compareFn)
sort(s) ==
  IF Len(s) < 2 THEN s
  ELSE TimSortLoop([a |-> s, runs |-> <<>>, minGallop |-> 7], 0, Len(s),
                   ComputeMinRunLength(Len(s), 0)).a

(***************************************************************************)
(* The inputs of the model: request bodies, and replies of the extraction  *)
(* model.                                                                  *)
(***************************************************************************)
\* The batches of the model: the first n of the venues' urls, which alternate
\* between two venues.
Batch(n) == [k \in 1..n |-> IF k % 2 = 1 THEN UrlBlueNote ELSE UrlPlain]

\* request.json() rejects on a body that is no JSON.
MalformedBody == [t |-> "malformed"]

Bodies ==
  {MalformedBody} \cup
  [t : {"object"},
   urls : {Undefined, Str(UrlPlain)} \cup {Arr(Batch(n)) : n \in 0..MaxUrls},
   apiKey : {Undefined, Str(""), Str("sk-test")}]

\* The richer variant scrolls and takes a screenshot (lines 17-288 of the
\* route), the simpler one does neither (lines 305-509).
Variants == {"rich", "simple"}

\* An event object as the model returns it for a listing with the given date.
Listing(date) ==
  RawEvent(Undefined, Str("Band X"), Undefined, Undefined, date, Str("8:00 PM"),
           Undefined, Undefined, Undefined)

SpecRawEvents == {Listing(Str("March 1, 2027")), Listing(Str("March 3, 2027"))}

SpecReplies ==
  {RequestFailed, NoContent, InvalidJSON} \cup
  {Json([t |-> "object", events |-> Arr(es)]) : es \in SeqsUpTo(SpecRawEvents, MaxEvents)}

(***************************************************************************)
(* The state of one POST.                                                  *)
(***************************************************************************)
VARIABLES
  body,       \* the request body
  variant,    \* which of the two variants of the route runs
  pc,         \* where POST stands: the await it is suspended at
  i,          \* the position in urls of the url being processed (from 1)
  allEvents,  \* the aggregate; each element: the event, its url's position, its index
  browsers,   \* the positions of the urls whose browser is open
  thrown,     \* scrapeWebsite's try block has thrown; the finally block runs next
  content,    \* scrapeWebsite's content, once the page is shaped
  per,        \* per url: its phase, and counts of what was done for it
  errors,     \* the positions of the urls logged by the catch of the loop
  response,   \* the response returned
  call        \* a call of a pure function under test (not used by POST)

vars == <<body, variant, pc, i, allEvents, browsers, thrown, content, per, errors,
          response, call>>

NoResponse == [status |-> 0, body |-> [none |-> TRUE]]
NoCall == [fn |-> "none"]

urls == body.urls.items
apiKey == body.apiKey

\* What the loop knows of one url before it is reached.
Pending ==
  [phase |-> "pending", attempts |-> 0, launches |-> 0, closes |-> 0,
   extractCalls |-> 0, returned |-> 0, args |-> Undefined]

\* The value scrapeWebsite returns for the page at url.
ScrapedContent(url, v) == [href |-> url, screenshot |-> v = "rich"]

Init ==
  /\ body \in Bodies
  /\ variant \in Variants
  /\ pc = "start"
  /\ i = 0
  /\ allEvents = <<>>
  /\ browsers = {}
  /\ thrown = FALSE
  /\ content = Undefined
  /\ per = <<>>
  /\ errors = <<>>
  /\ response = NoResponse
  /\ call = NoCall

(***************************************************************************)
(* POST, lines 236-248: the body is read and validated.                    *)
(***************************************************************************)
\* !urls || !Array.isArray(urls) || urls.length === 0, negated
ValidUrls(b) == Truthy(b.urls) /\ b.urls.t = "array" /\ Len(b.urls.items) # 0

\* A check of the key that lets the empty string pass (apiKey === undefined,
\* negated): the variant of HasKey against which C3 is checked.
HasKeyDefined(b) == b.apiKey # Undefined

\* !apiKey, negated
HasKey(b) == Truthy(b.apiKey)

Respond(r) == response' = r /\ pc' = "done"

\* The for loop takes up urls[k]: console.log, then scrapeWebsite(url) is called.
Enter(p, k) == [p EXCEPT ![k].phase = "rendering", ![k].attempts = @ + 1]

Receive ==
  /\ pc = "start"
  /\ IF body = MalformedBody
     THEN /\ Respond([status |-> 500, body |-> [error |-> "Unexpected token"]])
          /\ UNCHANGED <<i, per>>
     ELSE IF ~ValidUrls(body)
     THEN /\ Respond([status |-> 400, body |-> [error |-> "No URLs provided"]])
          /\ UNCHANGED <<i, per>>
     ELSE IF ~HasKey(body)
     THEN /\ Respond([status |-> 400, body |-> [error |-> "OpenAI API key is required"]])
          /\ UNCHANGED <<i, per>>
     ELSE /\ pc' = "launch"
          /\ i' = 1
          /\ per' = Enter([k \in 1..Len(urls) |-> Pending], 1)
          /\ UNCHANGED response
  /\ UNCHANGED <<body, variant, allEvents, browsers, thrown, content, errors, call>>

(***************************************************************************)
(* The end of one iteration of the for loop (lines 252-267): the next url  *)
(* is taken up, or the loop is left for the sort.                          *)
(***************************************************************************)
\* A loop that takes up a failed url a second time: the variant of Continue
\* against which C6 is checked.
ContinueRetrying(p) ==
  IF p[i].phase = "failed" /\ p[i].attempts < 2
  THEN i' = i /\ pc' = "launch" /\ per' = Enter(p, i)
  ELSE IF i < Len(urls)
       THEN i' = i + 1 /\ pc' = "launch" /\ per' = Enter(p, i + 1)
       ELSE i' = i /\ pc' = "sort" /\ per' = p

Continue(p) ==
  IF i < Len(urls)
  THEN i' = i + 1 /\ pc' = "launch" /\ per' = Enter(p, i + 1)
  ELSE i' = i /\ pc' = "sort" /\ per' = p

\* A loop without its own catch, whose exceptions reach the catch of POST:
\* the variant of Catch against which C2 is checked.
CatchFatal(p) ==
  /\ errors' = Append(errors, i)
  /\ i' = i
  /\ per' = [p EXCEPT ![i].phase = "failed"]
  /\ Respond([status |-> 500, body |-> [error |-> "An error occurred"]])

\* The catch of the loop, lines 263-266: the error is logged, the loop goes on.
Catch(p) ==
  /\ errors' = Append(errors, i)
  /\ response' = response
  /\ Continue([p EXCEPT ![i].phase = "failed"])

(***************************************************************************)
(* scrapeWebsite, lines 17-155 (richer variant) and 305-403 (simpler).     *)
(***************************************************************************)
\* An await inside the try block: it resolves, or it rejects and control
\* passes to the finally block.
Await(ok, next) ==
  IF ok THEN pc' = next /\ thrown' = thrown
  ELSE pc' = "close" /\ thrown' = TRUE

\* chromium.launch, before the try block: when it rejects there is no
\* browser, and the exception leaves scrapeWebsite for the catch of the loop.
Launch ==
  /\ pc = "launch"
  /\ \E ok \in BOOLEAN :
       IF ok
       THEN /\ browsers' = browsers \cup {i}
            /\ per' = [per EXCEPT ![i].launches = @ + 1]
            /\ pc' = "goto"
            /\ UNCHANGED <<i, errors, response>>
       ELSE /\ Catch(per)
            /\ UNCHANGED browsers
  /\ UNCHANGED <<body, variant, allEvents, thrown, content, call>>

\* browser.newContext, context.newPage and page.goto (timeout 30000): a
\* string that is no URL cannot be navigated to.
Navigate ==
  /\ pc = "goto"
  /\ \E ok \in BOOLEAN :
       /\ ok => ValidURL(urls[i])
       /\ Await(ok, "settle")
  /\ UNCHANGED <<body, variant, i, allEvents, browsers, content, per, errors, response, call>>

\* page.waitForTimeout; the scroll follows in the richer variant only.
Settle ==
  /\ pc = "settle"
  /\ \E ok \in BOOLEAN : Await(ok, IF variant = "rich" THEN "scroll" ELSE "shape")
  /\ UNCHANGED <<body, variant, i, allEvents, browsers, content, per, errors, response, call>>

\* page.evaluate of the incremental scroll, lines 49-66.
Scroll ==
  /\ pc = "scroll"
  /\ \E ok \in BOOLEAN : Await(ok, "shape")
  /\ UNCHANGED <<body, variant, i, allEvents, browsers, content, per, errors, response, call>>

\* page.evaluate of the content shaper; the simpler variant returns here.
Shape ==
  /\ pc = "shape"
  /\ \E ok \in BOOLEAN :
       /\ Await(ok, IF variant = "rich" THEN "screenshot" ELSE "close")
       /\ content' = IF ok THEN ScrapedContent(urls[i], variant) ELSE content
  /\ UNCHANGED <<body, variant, i, allEvents, browsers, per, errors, response, call>>

\* page.screenshot, lines 142-146; the richer variant returns after it.
Screenshot ==
  /\ pc = "screenshot"
  /\ \E ok \in BOOLEAN : Await(ok, "close")
  /\ UNCHANGED <<body, variant, i, allEvents, browsers, content, per, errors, response, call>>

\* Arguments that name the first url of the batch whatever url was rendered:
\* the variant of ExtractArgs against which C5 is checked.
ExtractArgsOfFirst(c, k) == [content |-> c, url |-> urls[1], apiKey |-> apiKey]

\* The arguments of extractEventsWithGPT(content, screenshot, url, openai),
\* line 260, after scrapeWebsite returned c for urls[k].
ExtractArgs(c, k) == [content |-> c, url |-> urls[k], apiKey |-> apiKey]

\* A close on the normal return only, with no finally block: the variant of
\* Released against which C4 is checked.
ReleasedOnReturn(open, k) == IF thrown THEN open ELSE open \ {k}

\* What the finally block does to the set of open browsers: browser.close().
Released(open, k) == open \ {k}

\* The finally block, then either the exception reaches the catch of the
\* loop, or scrapeWebsite returns and extractEventsWithGPT is called with
\* what it returned.
Close ==
  /\ pc = "close"
  /\ browsers' = Released(browsers, i)
  /\ thrown' = FALSE
  /\ content' = Undefined
  /\ IF thrown
     THEN Catch([per EXCEPT ![i].closes = @ + 1])
     ELSE /\ pc' = "extract"
          /\ per' = [per EXCEPT ![i].closes = @ + 1,
                                ![i].phase = "extracting",
                                ![i].extractCalls = @ + 1,
                                ![i].args = ExtractArgs(content, i)]
          /\ UNCHANGED <<i, errors, response>>
  /\ UNCHANGED <<body, variant, allEvents, call>>

(***************************************************************************)
(* The rest of the loop body, lines 260-262: the extraction returns and    *)
(* its events are pushed onto the aggregate.                               *)
(***************************************************************************)
\* events, each with the position of its url and its index in events.
Tagged(events, k) == [j \in DOMAIN events |-> [ev |-> events[j], src |-> k, idx |-> j]]

\* An aggregate that is assigned, not appended to: the variant of push
\* against which C1 is checked.
pushAssigning(all, events, k) == Tagged(events, k)

\* allEvents.push(...events)
push(all, events, k) == all \o Tagged(events, k)

\* extractEventsWithGPT returns and its events are pushed; an exception of
\* the call would reach the catch of the loop.
Extract ==
  /\ pc = "extract"
  /\ \E reply \in SpecReplies :
       LET out == extractEventsWithGPT(reply, per[i].args.url)
       IN  IF out.raised
           THEN /\ Catch(per)
                /\ UNCHANGED allEvents
           ELSE /\ allEvents' = push(allEvents, out.value, i)
                /\ Continue([per EXCEPT ![i].phase = "done",
                                         ![i].returned = Len(out.value)])
                /\ UNCHANGED <<errors, response>>
  /\ UNCHANGED <<body, variant, browsers, thrown, content, call>>

(***************************************************************************)
(* Lines 269-280: the sort and the success response.                       *)
(***************************************************************************)
SortAndRespond ==
  /\ pc = "sort"
  /\ allEvents' = sort(allEvents)
  /\ Respond([status |-> 200, body |-> [events |-> allEvents']])
  /\ UNCHANGED <<body, variant, i, browsers, thrown, content, per, errors, call>>

Next ==
  \/ Receive
  \/ Launch
  \/ Navigate
  \/ Settle
  \/ Scroll
  \/ Shape
  \/ Screenshot
  \/ Close
  \/ Extract
  \/ SortAndRespond

Spec == Init /\ [][Next]_vars

(***************************************************************************)
(* The content shaper: the callback of page.evaluate that scrapeWebsite    *)
(* runs in the page.  A document is its URL and its root element; a node   *)
(* is a text node or an element with its namespace, tag name, attributes   *)
(* and child nodes.  Strings are character sequences.                      *)
(***************************************************************************)
Text(data) == [nodeType |-> "TEXT_NODE", data |-> data]

Element(namespaceURI, tagName, attributes, childNodes) ==
  [nodeType |-> "ELEMENT_NODE", namespaceURI |-> namespaceURI, tagName |-> tagName,
   attributes |-> attributes, childNodes |-> childNodes]

\* The concatenation of F(x) for the elements x of s, in order.
RECURSIVE FlatMap(_, _)
FlatMap(F(_), s) == IF s = <<>> THEN <<>> ELSE F(Head(s)) \o FlatMap(F, Tail(s))

\* The lower-case letter of every upper-case letter.
LowerCase ==
  [A |-> "a", B |-> "b", C |-> "c", D |-> "d", E |-> "e", F |-> "f",
   G |-> "g", H |-> "h", I |-> "i", J |-> "j", K |-> "k", L |-> "l",
   M |-> "m", N |-> "n", O |-> "o", P |-> "p", Q |-> "q", R |-> "r",
   S |-> "s", T |-> "t", U |-> "u", V |-> "v", W |-> "w", X |-> "x",
   Y |-> "y", Z |-> "z"]

\* String.prototype.toLowerCase.
toLowerCase(s) ==
  SubSeq([k \in 1..Len(s) |->
            IF s[k] \in DOMAIN LowerCase THEN LowerCase[s[k]] ELSE s[k]],
         1, Len(s))

\* String.prototype.includes.
includes(s, pat) == IndexOf(s, pat) # 0

WhiteSpace == {" ", "\n", "\t"}

\* String.prototype.trim: white space is dropped at both ends.
trim(s) ==
  LET inked == {k \in 1..Len(s) : s[k] \notin WhiteSpace}
  IN  IF inked = {} THEN <<>>
      ELSE SubSeq(s, CHOOSE k \in inked : \A j \in inked : k <= j,
                     CHOOSE k \in inked : \A j \in inked : k >= j)

\* Array.prototype.join.
join(strings, separator) ==
  IF strings = <<>> THEN <<>>
  ELSE Head(strings) \o FlatMap(LAMBDA s : separator \o s, Tail(strings))

\* node.textContent: the text of the node's text nodes, in document order.
RECURSIVE textContent(_)
textContent(node) ==
  IF node.nodeType = "TEXT_NODE" THEN node.data
  ELSE FlatMap(textContent, node.childNodes)

\* The local name that a type selector such as 'script' or 'main' matches.
localName(el) == toLowerCase(el.tagName)

\* The elements of the tree of node, in document order.
RECURSIVE Elements(_)
Elements(node) ==
  IF node.nodeType = "TEXT_NODE" THEN <<>>
  ELSE <<node>> \o FlatMap(Elements, node.childNodes)

\* document.querySelectorAll(selector), the selector given as a predicate.
querySelectorAll(document, Selected(_)) ==
  SelectSeq(Elements(document.documentElement), Selected)

NonContent == {<<"s", "c", "r", "i", "p", "t">>, <<"s", "t", "y", "l", "e">>,
               <<"n", "o", "s", "c", "r", "i", "p", "t">>}

\* A document in which nothing is removed: the variant of remove against
\* which C14 is checked.
removeNothing(node) == node

\* querySelectorAll('script, style, noscript') and el.remove() for each, lines
\* 71-72: the tree of node without these elements.
RECURSIVE remove(_)
remove(node) ==
  IF node.nodeType = "TEXT_NODE" THEN node
  ELSE [node EXCEPT !.childNodes =
          FlatMap(LAMBDA child :
                    IF child.nodeType = "ELEMENT_NODE" /\ localName(child) \in NonContent
                    THEN <<>>
                    ELSE <<remove(child)>>,
                  node.childNodes)]

blockElements ==
  {<<"d", "i", "v">>, <<"p">>, <<"h", "1">>, <<"h", "2">>,
   <<"h", "3">>, <<"h", "4">>, <<"h", "5">>, <<"h", "6">>,
   <<"l", "i">>, <<"t", "r">>, <<"a", "r", "t", "i", "c", "l", "e">>,
   <<"s", "e", "c", "t", "i", "o", "n">>}

\* getTextWithStructure, lines 75-104.
RECURSIVE getTextWithStructure(_)
getTextWithStructure(element) ==
  FlatMap(LAMBDA child :
            IF child.nodeType = "TEXT_NODE"
            THEN IF trim(child.data) # <<>> THEN trim(child.data) \o <<" ">> ELSE <<>>
            ELSE IF localName(child) \in blockElements
                 THEN <<"\n">> \o getTextWithStructure(child) \o <<"\n">>
                 ELSE getTextWithStructure(child),
          element.childNodes)

eventKeywords ==
  <<<<"e", "v", "e", "n", "t", "s">>,
    <<"c", "a", "l", "e", "n", "d", "a", "r">>,
    <<"s", "h", "o", "w", "s">>,
    <<"c", "o", "n", "c", "e", "r", "t", "s">>,
    <<"s", "c", "h", "e", "d", "u", "l", "e">>,
    <<"u", "p", "c", "o", "m", "i", "n", "g">>,
    <<"p", "e", "r", "f", "o", "r", "m", "a", "n", "c", "e", "s">>,
    <<"g", "i", "g", "s">>>>

SVGAnimatedString ==
  <<"[", "o", "b", "j", "e", "c", "t", " ", "S", "V", "G", "A", "n", "i", "m",
    "a", "t", "e", "d", "S", "t", "r", "i", "n", "g", "]">>

\* el.className?.toString(): the class attribute of an HTML element; the
\* className of an SVG element is an SVGAnimatedString object, whose
\* toString() is Object.prototype.toString.
className(el) ==
  IF el.namespaceURI = "svg" THEN SVGAnimatedString
  ELSE IF "class" \in DOMAIN el.attributes THEN el.attributes.class ELSE <<>>

\* el.id: the id attribute, the empty string without one.
id(el) == IF "id" \in DOMAIN el.attributes THEN el.attributes.id ELSE <<>>

\* The filter of lines 112-117.
filter(el, keyword) ==
  \/ includes(toLowerCase(textContent(el)), keyword)
  \/ includes(toLowerCase(className(el)), keyword)
  \/ includes(toLowerCase(id(el)), keyword)

\* The accumulator after the loop over the keywords, lines 108-124.
eventContent(document) ==
  FlatMap(LAMBDA keyword :
            FlatMap(LAMBDA el :
                      IF Len(textContent(el)) > 50
                      THEN getTextWithStructure(el) \o <<"\n", "\n">>
                      ELSE <<>>,
                    querySelectorAll(document, LAMBDA el : filter(el, keyword))),
          eventKeywords)

Main == <<"m", "a", "i", "n">>
BodyTags == {<<"b", "o", "d", "y">>, <<"f", "r", "a", "m", "e", "s", "e", "t">>}

\* document.querySelector('main') || document.body, line 128.
mainOrBody(document) ==
  IF querySelectorAll(document, LAMBDA el : localName(el) = Main) # <<>>
  THEN Head(querySelectorAll(document, LAMBDA el : localName(el) = Main))
  ELSE Head(SelectSeq(document.documentElement.childNodes,
                      LAMBDA child : /\ child.nodeType = "ELEMENT_NODE"
                                     /\ localName(child) \in BodyTags))

\* A PAGE CONTENT block that holds the accumulator and then the fallback
\* text: the variant of pageContent against which C17 is checked.
pageContentWithFallback(document) ==
  eventContent(document) \o getTextWithStructure(mainOrBody(document))

\* eventContent after lines 127-130: the fallback when nothing accumulated.
pageContent(document) ==
  IF eventContent(document) = <<>>
  THEN getTextWithStructure(mainOrBody(document))
  ELSE eventContent(document)

LdJson == <<"a", "p", "p", "l", "i", "c", "a", "t", "i", "o", "n", "/", "l",
            "d", "+", "j", "s", "o", "n">>

\* script[type="application/ld+json"]; the value of type matches in any
\* letter case.
IsLdJson(el) ==
  /\ localName(el) = <<"s", "c", "r", "i", "p", "t">>
  /\ "type" \in DOMAIN el.attributes
  /\ toLowerCase(el.attributes.type) = LdJson

\* structuredData, lines 133-136, of the document as it is at that point.
structuredData(document) ==
  join(SelectSeq([k \in DOMAIN querySelectorAll(document, IsLdJson) |->
                    textContent(querySelectorAll(document, IsLdJson)[k])],
                 LAMBDA text : text # <<>>),
       <<"\n", "\n">>)

UrlLabel == <<"U", "R", "L", ":", " ">>
StructuredDataLabel ==
  <<"\n", "\n", "S", "T", "R", "U", "C", "T", "U", "R", "E", "D", " ", "D",
    "A", "T", "A", ":", "\n">>
PageContentLabel ==
  <<"\n", "\n", "P", "A", "G", "E", " ", "C", "O", "N", "T", "E", "N", "T",
    ":", "\n">>

\* The string that the callback returns, line 138.
Labelled(href, structured, page) ==
  UrlLabel \o href \o StructuredDataLabel \o structured \o PageContentLabel \o page

\* The callback of page.evaluate, lines 69-139 and 327-397.
evaluate(document) ==
  Labelled(document.URL,
           structuredData([document EXCEPT !.documentElement = remove(@)]),
           pageContent([document EXCEPT !.documentElement = remove(@)]))

(***************************************************************************)
(* extractEventsWithGPT and the final sort on their own: a call is drawn,  *)
(* and it is applied.  No POST runs here.                                  *)
(***************************************************************************)
MaxBatch == 4

CallUrls == {UrlBlueNote, UrlPlain, UrlInnerWww, UrlTailWww, UrlRelative, UrlData}

Smoke == <<"S", "m", "o", "k", "e">>

\* An event object that names its venue.
Billed(venue) ==
  RawEvent(Str(venue), Str("Band X"), Undefined, Undefined, Str("March 2, 2027"),
           Str("8:00 PM"), Undefined, Undefined, Undefined)

\* The page of one event of a venue.
UrlEventPage == UrlPlain \o <<"t", "r", "i", "o">>

\* An event object with the aliases name and title, a price, a description
\* and a url of its own, and neither eventName nor date nor time.
Aliased ==
  RawEvent(Str(Smoke), Undefined, Str("Trio Y"), Str("Late Set"), Undefined, Undefined,
           Str("$25"), Str("Two sets"), Str(UrlEventPage))

\* An event object whose eventName is the empty string and whose price is null.
Titled ==
  RawEvent(Str(Smoke), Str(""), Undefined, Str("Late Set"), Str("3/1/2027"), Str(""),
           Null, Undefined, Str(UrlEventPage))

\* An event object without any field.
EmptyObject == [t |-> "object"]

CallRawEvents ==
  {Listing(Str("March 1, 2027")), Billed(Smoke), Aliased, Titled, EmptyObject, Null}

\* Replies that parse to something else than an object with an array under
\* events: null, a string under events, an array under data, arrays under
\* both keys, a bare array, an empty object, null under events.
OtherReplies ==
  {Json(Null),
   Json([t |-> "object", events |-> Str("none")]),
   Json([t |-> "object", data |-> Arr(<<Aliased, Billed(Smoke)>>)]),
   Json([t |-> "object", events |-> Arr(<<Titled>>), data |-> Arr(<<Aliased, Billed(Smoke)>>)]),
   Json([t |-> "object", events |-> Arr(<<>>), data |-> Arr(<<Aliased>>)]),
   Json([t |-> "object", events |-> Null, data |-> Arr(<<Billed(Smoke), Null>>)]),
   Json(Arr(<<Aliased, Billed(Smoke)>>)),
   Json(EmptyObject)}

CallReplies ==
  {RequestFailed, NoContent, InvalidJSON} \cup OtherReplies \cup
  {Json([t |-> "object", events |-> Arr(es)]) : es \in SeqsUpTo(CallRawEvents, MaxEvents)}

\* An element of the aggregate with the given date, the k-th event of url src.
Dated(date, src, k) ==
  [ev |-> normalizeEvent(Listing(date), UrlPlain), src |-> src, idx |-> k]

CallDates == {Undefined, Str("March 1, 2027"), Str("March 3, 2027")}

\* The aggregate of one venue that lists 32 events of March 3 and a second
\* that lists 32 events of March 1, each with one event without a date.
TwoVenues ==
  SubSeq([k \in 1..64 |->
            IF k <= 32
            THEN Dated(IF k = 2 THEN Undefined ELSE Str("March 3, 2027"), 1, k)
            ELSE Dated(IF k = 44 THEN Undefined ELSE Str("March 1, 2027"), 2, k - 32)],
         1, 64)

Batches ==
  {[k \in 1..Len(ds) |-> Dated(ds[k], 1, k)] : ds \in SeqsUpTo(CallDates, MaxBatch)}
    \cup {TwoVenues}

\* Documents as the browser parsed them: an HTML element reports its tag
\* name in upper case, an SVG element as it was written.
Html(tagName, attributes, childNodes) == Element("html", tagName, attributes, childNodes)
Svg(tagName, attributes, childNodes) == Element("svg", tagName, attributes, childNodes)

MaxBlocks == 2

\* Over 50 characters, none of the keywords in it.
TwoSets ==
  <<"T", "r", "i", "o", " ", "Y", " ", "p", "l", "a", "y", "s", " ", "t", "w",
    "o", " ", "s", "e", "t", "s", " ", "o", "f", " ", "s", "t", "a", "n", "d",
    "a", "r", "d", "s", " ", "a", "t", " ", "t", "h", "e", " ", "c", "l", "u",
    "b", " ", "o", "n", " ", "F", "r", "i", "d", "a", "y", " ", "n", "i", "g",
    "h", "t">>
Evenings ==
  <<"A", " ", "m", "o", "n", "t", "h", " ", "o", "f", " ", "e", "v", "e", "n",
    "i", "n", "g", "s", " ", "a", "t", " ", "t", "h", "e", " ", "c", "l", "u",
    "b", ",", " ", "w", "i", "t", "h", " ", "d", "o", "o", "r", "s", " ", "a",
    "t", " ", "s", "e", "v", "e", "n", " ", "a", "n", "d", " ", "m", "u", "s",
    "i", "c", " ", "a", "t", " ", "e", "i", "g", "h", "t">>
\* Over 50 characters, the keyword "concerts" in it.
ConcertsWeek ==
  <<"C", "o", "n", "c", "e", "r", "t", "s", " ", "e", "v", "e", "r", "y", " ",
    "n", "i", "g", "h", "t", " ", "t", "h", "i", "s", " ", "w", "e", "e", "k",
    ",", " ", "t", "w", "o", " ", "s", "e", "t", "s", ",", " ", "d", "o", "o",
    "r", "s", " ", "a", "t", " ", "s", "e", "v", "e", "n", ",", " ", "n", "o",
    " ", "c", "o", "v", "e", "r">>

Tracker == <<"t", "r", "a", "c", "k", "(", ")">>
Rules == <<".", "x", "{", "}">>
EnableScripts == <<"E", "n", "a", "b", "l", "e", " ", "J", "a", "v", "a", "S",
                   "c", "r", "i", "p", "t">>
EventData == <<"{", "\"", "@", "t", "y", "p", "e", "\"", ":", "\"", "E", "v",
               "e", "n", "t", "\"", "}">>
VenueData == <<"{", "\"", "@", "t", "y", "p", "e", "\"", ":", "\"", "P", "l",
               "a", "c", "e", "\"", "}">>

Paragraph == Html(<<"P">>, <<>>, <<Text(<<"J", "a", "z", "z", " ", "t", "o",
                                          "n", "i", "g", "h", "t">>)>>)

CalendarList ==
  Html(<<"D", "I", "V">>, [class |-> <<"C", "a", "l", "e", "n", "d", "a", "r", "-",
                                "L", "i", "s", "t">>],
       <<Text(<<"\n", " ", " ">>), Html(<<"S", "C", "R", "I", "P", "T">>, <<>>, <<Text(Tracker)>>),
         Text(TwoSets), Html(<<"S", "T", "Y", "L", "E">>, <<>>, <<Text(Rules)>>)>>)

CalendarShort == Html(<<"D", "I", "V">>, [class |-> <<"c", "a", "l", "e", "n", "d", "a", "r">>], <<Text(<<"M", "o", "n", " ", "T", "u", "e">>)>>)

CalendarIcon ==
  Svg(<<"s", "v", "g">>, [class |-> <<"c", "a", "l", "e", "n", "d", "a", "r">>], <<Svg(<<"t", "i", "t", "l", "e">>, <<>>, <<Text(Evenings)>>)>>)

EventsSection ==
  Html(<<"S", "E", "C", "T", "I", "O", "N">>, [id |-> <<"E", "v", "e", "n", "t", "s">>],
       <<Html(<<"H", "2">>, <<>>, <<Text(<<"U", "p", "c", "o", "m", "i", "n", "g", " ",
                                "S", "h", "o", "w", "s">>)>>),
         Html(<<"P">>, <<>>, <<Text(ConcertsWeek)>>)>>)

MainBlock ==
  Html(<<"M", "A", "I", "N">>, <<>>,
       <<Html(<<"P">>, <<>>, <<Text(<<"D", "o", "o", "r", "s", " ", "a", "t", " ",
                                "s", "e", "v", "e", "n">>)>>),
         Html(<<"N", "O", "S", "C", "R", "I", "P", "T">>, <<>>, <<Text(EnableScripts)>>)>>)

Blocks == {Paragraph, CalendarList, CalendarShort, CalendarIcon, EventsSection, MainBlock}

PlainHead == Html(<<"H", "E", "A", "D">>, <<>>, <<Html(<<"T", "I", "T", "L", "E">>, <<>>, <<Text(<<"S", "m", "o", "k", "e">>)>>)>>)

LinkedHead ==
  Html(<<"H", "E", "A", "D">>, <<>>,
       <<Html(<<"T", "I", "T", "L", "E">>, <<>>, <<Text(<<"S", "m", "o", "k", "e">>)>>),
         Html(<<"S", "C", "R", "I", "P", "T">>, [type |-> LdJson], <<Text(EventData)>>),
         Html(<<"S", "C", "R", "I", "P", "T">>, [type |-> LdJson], <<Text(VenueData)>>)>>)

Document(head, blocks) ==
  [URL |-> UrlPlain,
   documentElement |->
     Html(<<"H", "T", "M", "L">>, <<>>,
          <<head, Html(<<"B", "O", "D", "Y">>, <<>>, <<Text(<<"\n">>)>> \o blocks)>>)]

Documents ==
  {Document(head, blocks) : head \in {PlainHead, LinkedHead},
                            blocks \in SeqsUpTo(Blocks, MaxBlocks)}

Calls ==
  [fn : {"extractEventsWithGPT"}, reply : CallReplies, url : CallUrls, done : {FALSE}]
    \cup [fn : {"sort"}, batch : Batches, done : {FALSE}]
    \cup [fn : {"evaluate"}, document : Documents, done : {FALSE}]

PureInit ==
  /\ call \in Calls
  /\ body = MalformedBody
  /\ variant = "rich"
  /\ pc = "done"
  /\ i = 0
  /\ allEvents = <<>>
  /\ browsers = {}
  /\ thrown = FALSE
  /\ content = Undefined
  /\ per = <<>>
  /\ errors = <<>>
  /\ response = NoResponse

CallExtract ==
  /\ call.fn = "extractEventsWithGPT"
  /\ ~call.done
  /\ call' = [fn |-> call.fn, reply |-> call.reply, url |-> call.url, done |-> TRUE,
              result |-> extractEventsWithGPT(call.reply, call.url)]
  /\ UNCHANGED <<body, variant, pc, i, allEvents, browsers, thrown, content, per, errors,
                 response>>

CallSort ==
  /\ call.fn = "sort"
  /\ ~call.done
  /\ call' = [fn |-> call.fn, batch |-> call.batch, done |-> TRUE,
              result |-> sort(call.batch)]
  /\ UNCHANGED <<body, variant, pc, i, allEvents, browsers, thrown, content, per, errors,
                 response>>

CallEvaluate ==
  /\ call.fn = "evaluate"
  /\ ~call.done
  /\ call' = [fn |-> call.fn, document |-> call.document, done |-> TRUE,
              result |-> evaluate(call.document)]
  /\ UNCHANGED <<body, variant, pc, i, allEvents, browsers, thrown, content, per, errors,
                 response>>

PureNext == CallExtract \/ CallSort \/ CallEvaluate

PureSpec == PureInit /\ [][PureNext]_vars

(***************************************************************************)
(* The incremental scroll of the richer scrapeWebsite, lines 49-66: the    *)
(* interval callback, the page that grows while it is scrolled, the pause  *)
(* before the promise resolves, and the steps that follow it.              *)
(***************************************************************************)
distance == 100
innerHeight == 1080

MaxGrowths == 2

\* document.body.scrollHeight when the scroll begins, and what a lazy load
\* adds to it.
InitialHeights == {0, 1080, 1500}
Growths == {250, 400}

ScrollInit ==
  /\ call \in [fn : {"scroll"}, totalHeight : {0}, scrollHeight : InitialHeights,
               scrollY : {0}, growths : {0}, timer : {"set"}, cleared : {0},
               timeout : {"none"}]
  /\ body = MalformedBody
  /\ variant = "rich"
  /\ pc = "scroll"
  /\ i = 0
  /\ allEvents = <<>>
  /\ browsers = {}
  /\ thrown = FALSE
  /\ content = Undefined
  /\ per = <<>>
  /\ errors = <<>>
  /\ response = NoResponse

\* window.scrollBy(0, dy): the position stays within the document.
scrollBy(dy) == Max(0, Min(call.scrollY + dy, call.scrollHeight - innerHeight))

\* An interval callback that scrolls back and starts the pause without
\* clearing the timer: the variant of Tick against which C19 is checked.
TickLeavingTimer ==
  /\ pc = "scroll"
  /\ call.timer = "set"
  /\ call.totalHeight <= call.scrollHeight + distance
  /\ call' = IF call.totalHeight + distance >= call.scrollHeight
             THEN [call EXCEPT !.totalHeight = @ + distance, !.scrollY = 0,
                               !.timeout = IF @ = "none" THEN "pending" ELSE @]
             ELSE [call EXCEPT !.totalHeight = @ + distance, !.scrollY = scrollBy(distance)]
  /\ UNCHANGED <<body, variant, pc, i, allEvents, browsers, thrown, content, per, errors,
                 response>>

\* One run of the interval callback, lines 53-64.
Tick ==
  /\ pc = "scroll"
  /\ call.timer = "set"
  /\ call' = IF call.totalHeight + distance >= call.scrollHeight
             THEN [call EXCEPT !.totalHeight = @ + distance, !.timer = "cleared",
                               !.cleared = @ + 1, !.scrollY = 0, !.timeout = "pending"]
             ELSE [call EXCEPT !.totalHeight = @ + distance, !.scrollY = scrollBy(distance)]
  /\ UNCHANGED <<body, variant, pc, i, allEvents, browsers, thrown, content, per, errors,
                 response>>

\* The page loads more content between two runs of the callback, so that the
\* next read of document.body.scrollHeight, line 54, is larger.
Grow ==
  /\ pc = "scroll"
  /\ call.timer = "set"
  /\ call.growths < MaxGrowths
  /\ \E more \in Growths :
       call' = [call EXCEPT !.scrollHeight = @ + more, !.growths = @ + 1]
  /\ UNCHANGED <<body, variant, pc, i, allEvents, browsers, thrown, content, per, errors,
                 response>>

\* setTimeout(resolve, 1000) fires, line 62: the awaited promise resolves.
Pause ==
  /\ pc = "scroll"
  /\ call.timeout = "pending"
  /\ call' = [call EXCEPT !.timeout = "fired"]
  /\ pc' = "shape"
  /\ UNCHANGED <<body, variant, i, allEvents, browsers, thrown, content, per, errors,
                 response>>

\* The content shaper runs, lines 69-139.
ShapeAfterScroll ==
  /\ call.fn = "scroll"
  /\ pc = "shape"
  /\ pc' = "screenshot"
  /\ UNCHANGED <<body, variant, i, allEvents, browsers, thrown, content, per, errors,
                 response, call>>

\* The screenshot is taken, lines 142-146.
ScreenshotAfterScroll ==
  /\ call.fn = "scroll"
  /\ pc = "screenshot"
  /\ pc' = "close"
  /\ UNCHANGED <<body, variant, i, allEvents, browsers, thrown, content, per, errors,
                 response, call>>

ScrollNext == Tick \/ Grow \/ Pause \/ ShapeAfterScroll \/ ScreenshotAfterScroll

\* The timers of the page fire, and scrapeWebsite goes on once its await
\* returns; nothing obliges the page to grow.
ScrollSpec ==
  /\ ScrollInit
  /\ [][ScrollNext]_vars
  /\ WF_vars(Tick)
  /\ WF_vars(Pause)
  /\ WF_vars(ShapeAfterScroll)
  /\ WF_vars(ScreenshotAfterScroll)

(***************************************************************************)
(* The page of the UI (app/page.tsx): its lists, the selected list, the    *)
(* API key, and scrapeEvents with the request it has in flight.  The state *)
(* of the component is the record held in call.                            *)
(***************************************************************************)
MaxListUrls == 2

\* The ids that uuidv4 hands out.
ListIds == {"a", "b"}

\* What the user may have typed into an input when its button is clicked.
Typed == {<<>>, <<" ">>, UrlPlain}
Keys == {Str(""), Str("sk-test")}

NoReply == [kind |-> "none"]

\* fetch rejects: the request did not reach the server.
Rejected == [kind |-> "rejected", message |-> <<"Failed to fetch">>]

\* fetch resolves with a response; text is its body, a JSON value or NotJson.
Response(status, text) == [kind |-> "response", status |-> status, text |-> text]

NotJson == [t |-> "notJson"]

\* What POST of the route answers (lines 240-246 and 280-286 of route.ts),
\* and what anything between the page and the route may answer instead.
Replies ==
  {Rejected,
   Response(400, [t |-> "object", error |-> Str("No URLs provided")]),
   Response(400, [t |-> "object", error |-> Str("OpenAI API key is required")]),
   Response(500, [t |-> "object", error |-> Str("Unexpected token")]),
   Response(502, NotJson),
   Response(200, [t |-> "object", events |-> Arr(<<>>)]),
   Response(200, [t |-> "object", events |-> Arr(<<Listing(Str("March 1, 2027"))>>)]),
   Response(200, [t |-> "object"]),
   Response(200, [t |-> "object", error |-> Str("Quota exceeded")]),
   Response(200, Null),
   Response(200, NotJson)}

\* useState of lines 25-32.
UIInit ==
  /\ call = [fn |-> "Home", lists |-> <<>>, selectedListId |-> "", apiKey |-> Str(""),
             events |-> <<>>, loading |-> FALSE, error |-> Null,
             step |-> "idle", reply |-> NoReply]
  /\ body = MalformedBody
  /\ variant = "rich"
  /\ pc = "done"
  /\ i = 0
  /\ allEvents = <<>>
  /\ browsers = {}
  /\ thrown = FALSE
  /\ content = Undefined
  /\ per = <<>>
  /\ errors = <<>>
  /\ response = NoResponse

UIUnchanged ==
  UNCHANGED <<body, variant, pc, i, allEvents, browsers, thrown, content, per, errors,
              response>>

\* lists.find(list => list.id === selectedListId), as a sequence of at most
\* one list.
find(lists, listId) == SelectSeq(lists, LAMBDA list : list.id = listId)

\* onChange of the key input, line 158.
setApiKey ==
  /\ call.fn = "Home"
  /\ \E key \in Keys : call' = [call EXCEPT !.apiKey = key]
  /\ UIUnchanged

\* createNewList, lines 59-72.
createNewList ==
  /\ call.fn = "Home"
  /\ \E newListName \in Typed, listId \in ListIds :
       /\ \A k \in DOMAIN call.lists : call.lists[k].id # listId
       /\ call' = IF trim(newListName) = <<>> THEN call
                  ELSE [call EXCEPT !.lists = Append(@, [id |-> listId, urls |-> <<>>]),
                                    !.selectedListId = listId]
  /\ UIUnchanged

\* deleteList, lines 74-79.
deleteList ==
  /\ call.fn = "Home"
  /\ \E k \in DOMAIN call.lists :
       call' = [call EXCEPT
                  !.lists = SelectSeq(@, LAMBDA list : list.id # call.lists[k].id),
                  !.selectedListId = IF @ = call.lists[k].id THEN "" ELSE @]
  /\ UIUnchanged

\* onClick of a list, line 210.
setSelectedListId ==
  /\ call.fn = "Home"
  /\ \E k \in DOMAIN call.lists : call' = [call EXCEPT !.selectedListId = call.lists[k].id]
  /\ UIUnchanged

\* The urls of the selected list, which is on the page.
selectedUrls == Head(find(call.lists, call.selectedListId)).urls

\* lists.map(list => list.id === selectedListId ? {...list, urls} : list)
withUrls(newUrls) ==
  SubSeq([k \in DOMAIN call.lists |->
            IF call.lists[k].id = call.selectedListId
            THEN [call.lists[k] EXCEPT !.urls = newUrls]
            ELSE call.lists[k]],
         1, Len(call.lists))

\* addUrlToList, lines 81-90; it is on the page when a list is selected.
addUrlToList ==
  /\ call.fn = "Home"
  /\ find(call.lists, call.selectedListId) # <<>>
  /\ Len(selectedUrls) < MaxListUrls
  /\ \E newUrl \in Typed :
       call' = IF trim(newUrl) = <<>> \/ call.selectedListId = "" THEN call
               ELSE [call EXCEPT !.lists = withUrls(Append(selectedUrls, newUrl))]
  /\ UIUnchanged

\* removeUrlFromList, lines 92-98: every url equal to the one clicked goes.
removeUrlFromList ==
  /\ call.fn = "Home"
  /\ find(call.lists, call.selectedListId) # <<>>
  /\ \E k \in DOMAIN selectedUrls :
       call' = [call EXCEPT !.lists =
                  withUrls(SelectSeq(selectedUrls, LAMBDA u : u # selectedUrls[k]))]
  /\ UIUnchanged

\* The Scrape button is on the page when a list is selected, and it is
\* disabled while loading or while the list has no urls, lines 232 and 281.
ScrapeEnabled ==
  /\ find(call.lists, call.selectedListId) # <<>>
  /\ ~call.loading
  /\ Len(selectedUrls) # 0

\* The message of the Error thrown at line 127; a message is the sequence of
\* the parts of its template.
HttpError(status) == <<"HTTP error! status: ", status>>

\* catch, lines 137-138: the error thrown is always an Error here.
catch(c, message) == [c EXCEPT !.error = Str(message)]

\* A finally that leaves loading as it is: the variant of finally against
\* which C21 is checked.
finallyStillLoading(c) == [c EXCEPT !.step = "idle", !.reply = NoReply]

\* finally, lines 139-141, and the end of scrapeEvents.
finally(c) == [c EXCEPT !.loading = FALSE, !.step = "idle", !.reply = NoReply]

\* A click on the Scrape button: scrapeEvents up to its first await, lines
\* 100-124.
scrapeEvents ==
  /\ call.fn = "Home"
  /\ ScrapeEnabled
  /\ call' =
       IF call.selectedListId = "" \/ ~Truthy(call.apiKey)
       THEN [call EXCEPT !.error =
               Str(<<"Please select a list and provide an OpenAI API key">>)]
       ELSE IF \/ find(call.lists, call.selectedListId) = <<>>
               \/ Len(selectedUrls) = 0
            THEN [call EXCEPT !.error = Str(<<"Selected list has no URLs">>)]
            ELSE [call EXCEPT !.loading = TRUE, !.error = Null, !.events = <<>>,
                              !.step = "fetch"]
  /\ UIUnchanged

\* The request is answered, or it fails on the way.
Answer ==
  /\ call.fn = "Home"
  /\ call.step = "fetch"
  /\ call.reply = NoReply
  /\ \E reply \in Replies : call' = [call EXCEPT !.reply = reply]
  /\ UIUnchanged

\* scrapeEvents after await fetch, lines 117-128.
AfterFetch ==
  /\ call.fn = "Home"
  /\ call.step = "fetch"
  /\ call.reply # NoReply
  /\ call' =
       IF call.reply.kind = "rejected"
       THEN finally(catch(call, call.reply.message))
       ELSE IF call.reply.status \notin 200..299
            THEN finally(catch(call, HttpError(call.reply.status)))
            ELSE [call EXCEPT !.step = "json"]
  /\ UIUnchanged

\* scrapeEvents after await response.json(), lines 130-141.
AfterJson ==
  /\ call.fn = "Home"
  /\ call.step = "json"
  /\ call' =
       IF call.reply.text = NotJson
       THEN finally(catch(call, <<"Unexpected token">>))
       ELSE IF call.reply.text = Null
            THEN finally(catch(call, <<"Cannot read properties of null">>))
            ELSE IF Truthy(Get(call.reply.text, "error"))
                 THEN finally(catch(call, <<Get(call.reply.text, "error").s>>))
                 ELSE finally([call EXCEPT !.events =
                                 Or(Get(call.reply.text, "events"), Arr(<<>>)).items])
  /\ UIUnchanged

UINext ==
  \/ setApiKey
  \/ createNewList
  \/ deleteList
  \/ setSelectedListId
  \/ addUrlToList
  \/ removeUrlFromList
  \/ scrapeEvents
  \/ Answer
  \/ AfterFetch
  \/ AfterJson

UISpec == UIInit /\ [][UINext]_vars

(***************************************************************************)
(* Properties of POST (specification Spec).                                *)
(***************************************************************************)
\* The request passes validation: a non-empty array of urls, a non-empty key.
PassesValidation ==
  /\ body # MalformedBody
  /\ body.urls.t = "array"
  /\ body.urls.items # <<>>
  /\ body.apiKey.t = "string"
  /\ body.apiKey.s # ""

\* POST has answered with the success response.
Succeeded == pc = "done" /\ response.status = 200

RECURSIVE SumReturned(_)
SumReturned(p) == IF p = <<>> THEN 0 ELSE Head(p).returned + SumReturned(Tail(p))

\* The elements of the sequence that came from the k-th url.
EventsOf(events, k) == SelectSeq(events, LAMBDA e : e.src = k)

RenderPcs == {"goto", "settle", "scroll", "shape", "screenshot", "close"}

\* C1: the returned sequence is as long as the sum, over the urls, of the
\* number of events the url's extraction returned; every url's events are
\* all there, and a url that failed contributes none.
C1_LengthIsSumOverUrls ==
  Succeeded =>
    /\ Len(response.body.events) = SumReturned(per)
    /\ \A k \in DOMAIN per :
         /\ Len(EventsOf(response.body.events, k)) = per[k].returned
         /\ per[k].phase = "failed" => per[k].returned = 0

\* C1, its case: the first url failed, the second returned two events, and
\* exactly those two are returned.
C1_Witness ==
  /\ Succeeded
  /\ Len(per) = 2
  /\ per[1].phase = "failed"
  /\ per[2].returned = 2
  /\ Len(response.body.events) = 2
  /\ \A k \in 1..2 : response.body.events[k].src = 2

\* C2: the answer to a request that passes validation is the success
\* response {events}, whatever failed for its urls, and it has no events when
\* all of them failed.
C2_ValidRequestSucceeds ==
  (PassesValidation /\ pc = "done") =>
    /\ response.status = 200
    /\ DOMAIN response.body = {"events"}
    /\ (\A k \in DOMAIN per : per[k].phase = "failed") => response.body.events = <<>>

\* C2, its case: every url of a batch of two failed, and the answer is the
\* success response with no events.
C2_Witness ==
  /\ PassesValidation
  /\ Succeeded
  /\ Len(per) = 2
  /\ \A k \in 1..2 : per[k].phase = "failed"
  /\ response.body.events = <<>>

\* C3: a request whose urls is missing, no array or empty, or whose key is
\* missing or empty, is answered with an error response without an events
\* key, and nothing is launched or extracted for it at any time.
C3_InvalidRequestRejectedBeforeWork ==
  (/\ body # MalformedBody
   /\ \/ body.urls.t # "array"
      \/ body.urls.items = <<>>
      \/ body.apiKey \in {Undefined, Str("")}) =>
    /\ pc \in {"start", "done"}
    /\ i = 0 /\ per = <<>> /\ browsers = {} /\ allEvents = <<>>
    /\ pc = "done" => response.status = 400 /\ DOMAIN response.body = {"error"}

\* C3, its case: a request with urls and an empty key has been rejected.
C3_Witness ==
  /\ pc = "done"
  /\ body # MalformedBody
  /\ body.urls.t = "array"
  /\ body.urls.items # <<>>
  /\ body.apiKey = Str("")
  /\ response.status = 400

\* C4: at most one browser is open, and only that of the url being
\* rendered; none is open before a render starts, during an extraction or
\* when the response is returned; a render that has ended, however it
\* ended, has closed the browser it launched.
C4_BrowserClosedOnEveryExit ==
  /\ Cardinality(browsers) <= 1
  /\ browsers \subseteq (IF pc \in RenderPcs THEN {i} ELSE {})
  /\ \A k \in DOMAIN per : per[k].phase # "rendering" => per[k].closes = per[k].launches

\* C4, its case: a render failed after its browser was launched, a later
\* one returned, and the response has been returned.
C4_Witness ==
  /\ Succeeded
  /\ Len(per) = 2
  /\ per[1].phase = "failed" /\ per[1].launches = 1 /\ per[1].closes = 1
  /\ per[2].phase = "done" /\ per[2].launches = 1 /\ per[2].closes = 1
  /\ browsers = {}

\* C5: the urls before the current one have finished, the urls after it
\* have not begun, only the current url is being rendered or extracted, and
\* an extraction was called after its own url's render returned, with that
\* render's content and that url.
C5_StrictlySequential ==
  \A k \in DOMAIN per :
    /\ k < i => per[k].phase \in {"done", "failed"}
    /\ k > i => per[k] = Pending
    /\ per[k].phase = "rendering" => k = i /\ pc \in RenderPcs \cup {"launch"}
    /\ per[k].phase = "extracting" => k = i /\ pc = "extract"
    /\ per[k].extractCalls > 0 =>
         /\ per[k].launches = 1 /\ per[k].closes = 1
         /\ per[k].args = [content |-> ScrapedContent(urls[k], variant),
                           url |-> urls[k], apiKey |-> body.apiKey]

\* C5, its case: the extraction of the second of two different urls is
\* under way, after the first url was rendered and extracted.
C5_Witness ==
  /\ pc = "extract"
  /\ i = 2
  /\ urls[1] # urls[2]
  /\ per[1].phase = "done"
  /\ per[2].phase = "extracting"

Extracted == call.fn = "extractEventsWithGPT" /\ call.done
Sorted == call.fn = "sort" /\ call.done

\* The parsed value is an object that holds an array under the key.
HasArray(v, key) == v.t = "object" /\ key \in DOMAIN v /\ v[key].t = "array"

\* The parsed reply holds an array of events one of which is null.
HasNullEvent(reply) ==
  /\ reply.kind = "json"
  /\ HasArray(reply.value, "events")
  /\ \E k \in DOMAIN reply.value.events.items : reply.value.events.items[k] = Null

\* C7: extractEventsWithGPT does not raise, and it returns the empty
\* sequence when the request failed, when the reply has no content, when the
\* content is no JSON, and when normalizing the parsed reply throws.
C7_ExtractionNeverRaises ==
  Extracted =>
    /\ ~call.result.raised
    /\ (\/ call.reply.kind \in {"requestFailed", "noContent", "invalidJSON"}
        \/ HasNullEvent(call.reply)) => call.result.value = <<>>

\* C7, its case: the reply held a listing and a null, on which the
\* normalization throws, and the empty sequence was returned.
C7_Witness ==
  /\ Extracted
  /\ HasNullEvent(call.reply)
  /\ Len(call.reply.value.events.items) = 2
  /\ call.result = Returned(<<>>)

\* The date of an element of the aggregate parses as a calendar date.
Parseable(e) == ~getTime(e.ev.date).nan

\* The elements of the sequence whose dates do not parse, in its order.
Unparseable(s) == SelectSeq(s, LAMBDA e : ~Parseable(e))

\* C8: the events whose dates do not parse are returned in the relative
\* order in which they were inserted into the aggregate.
C8_StableForUnparseableDates ==
  Sorted => Unparseable(call.result) = Unparseable(call.batch)

\* C9: any two events of the sorted aggregate whose dates parse are in
\* ascending order of date, whatever lies between them.
C9_SortedByParsedDate ==
  Sorted =>
    \A j, k \in DOMAIN call.result :
      (j < k /\ Parseable(call.result[j]) /\ Parseable(call.result[k])) =>
        getTime(call.result[j].ev.date).n <= getTime(call.result[k].ev.date).n

\* The hostname with a leading "www." removed and nothing else changed.
WithoutLeadingWww(h) == IF IsPrefix(Www, h) THEN SubSeq(h, Len(Www) + 1, Len(h)) ELSE h

\* C10: an event object with no venue gets, as its venue, the hostname of the
\* source url with a leading "www." removed; a hostname that does not start
\* with "www." is used unchanged.
C10_VenueIsHostnameWithoutLeadingWww ==
  (Extracted /\ call.reply.kind = "json" /\ HasArray(call.reply.value, "events")
     /\ call.result.value # <<>>) =>
    \A k \in DOMAIN call.result.value :
      ~Truthy(Get(call.reply.value.events.items[k], "venue")) =>
        call.result.value[k].venue = Str(WithoutLeadingWww(hostname(call.url)))

\* The model supplied the field: the event object has it, and it is neither
\* null nor the empty string.
Supplied(e, f) ==
  /\ e.t = "object"
  /\ f \in DOMAIN e
  /\ e[f].t \notin {"undefined", "null"}
  /\ e[f].t = "string" => Len(e[f].s) # 0

\* The field as supplied, the default when it was not supplied.
SuppliedOr(e, f, default) == IF Supplied(e, f) THEN e[f] ELSE default

\* The field as the model gave it, absent when the model omitted it.
AsGiven(e, f) == IF e.t = "object" /\ f \in DOMAIN e THEN e[f] ELSE Undefined

\* The array of events of a parsed reply: the one under events, else the one
\* under data, else none.
ModelArray(v) ==
  IF HasArray(v, "events") THEN v.events.items
  ELSE IF HasArray(v, "data") THEN v.data.items
  ELSE <<>>

\* The call returned events normalized from the array of the parsed reply.
Normalized == Extracted /\ call.reply.kind = "json" /\ call.result.value # <<>>

\* C11: eventName is the event's eventName, else its name, else its title,
\* else "Unknown Event"; date and time are "TBA" when absent; url is the
\* source url when absent; a supplied field is kept as supplied; price and
\* description are as the model gave them, absent when omitted.
C11_NormalizationDefaults ==
  Normalized =>
    \A k \in DOMAIN call.result.value :
      LET e == ModelArray(call.reply.value)[k]
          r == call.result.value[k]
      IN  /\ r.eventName =
               SuppliedOr(e, "eventName",
                 SuppliedOr(e, "name", SuppliedOr(e, "title", Str("Unknown Event"))))
          /\ r.date = SuppliedOr(e, "date", Str("TBA"))
          /\ r.time = SuppliedOr(e, "time", Str("TBA"))
          /\ r.url = SuppliedOr(e, "url", Str(call.url))
          /\ r.price = AsGiven(e, "price")
          /\ r.description = AsGiven(e, "description")

\* C11, its case: an event with name and title and no eventName, date or
\* time, and an event without any field, were normalized.
C11_Witness ==
  /\ Normalized
  /\ ModelArray(call.reply.value) = <<Aliased, EmptyObject>>
  /\ call.result.value[1].eventName = Str("Trio Y")
  /\ call.result.value[1].date = Str("TBA")
  /\ call.result.value[1].price = Str("$25")
  /\ call.result.value[1].url = Str(UrlEventPage)
  /\ call.result.value[2].eventName = Str("Unknown Event")
  /\ call.result.value[2].time = Str("TBA")
  /\ call.result.value[2].price = Undefined
  /\ call.result.value[2].url = Str(call.url)

\* The field is present and not empty.
Populated(v) == v.t = "string" /\ Len(v.s) > 0

\* C12: every returned event has venue, eventName, date, time and url
\* populated, whatever object the model returned and whatever the source url.
C12_RequiredFieldsPopulated ==
  Extracted =>
    \A k \in DOMAIN call.result.value :
      /\ Populated(call.result.value[k].venue)
      /\ Populated(call.result.value[k].eventName)
      /\ Populated(call.result.value[k].date)
      /\ Populated(call.result.value[k].time)
      /\ Populated(call.result.value[k].url)

\* The call got a reply that parses to an object or an array.
Parsed == Extracted /\ call.reply.kind = "json" /\ call.reply.value.t \in {"object", "array"}

\* Normalizing the element throws: it is null, or it has no venue and the
\* source url is no URL.
ElementThrows(e, url) == e = Null \/ (~Supplied(e, "venue") /\ ~ValidURL(url))

\* The events are the elements of the array, normalized, in its order.
InOrderOf(events, array, url) ==
  /\ Len(events) = Len(array)
  /\ \A k \in DOMAIN array :
       /\ events[k].eventName =
            SuppliedOr(array[k], "eventName",
              SuppliedOr(array[k], "name", SuppliedOr(array[k], "title", Str("Unknown Event"))))
       /\ events[k].url = SuppliedOr(array[k], "url", Str(url))

C20_AllOrNothing ==
  Parsed =>
    /\ Len(call.result.value) \in {0, Len(ModelArray(call.reply.value))}
    /\ call.result.value # <<>> =>
         /\ InOrderOf(call.result.value, ModelArray(call.reply.value), call.url)
         /\ \A k \in DOMAIN ModelArray(call.reply.value) :
              ~ElementThrows(ModelArray(call.reply.value)[k], call.url)

\* C20, its case: the array held an event that can be normalized and a null,
\* and nothing was returned.
C20_Witness ==
  /\ Parsed
  /\ ModelArray(call.reply.value) = <<Billed(Smoke), Null>>
  /\ ValidURL(call.url)
  /\ call.result = Returned(<<>>)

(***************************************************************************)
(* Properties of the content shaper (specification PureSpec).              *)
(***************************************************************************)
Shaped == call.fn = "evaluate" /\ call.done

\* The document of the call once its script, style and noscript elements
\* are gone.
Stripped == [call.document EXCEPT !.documentElement = remove(@)]

\* What follows the PAGE CONTENT label in a shaped text.
PageContentOf(shaped) ==
  SubSeq(shaped, IndexOf(shaped, PageContentLabel) + Len(PageContentLabel), Len(shaped))

\* The attribute of el named name, the empty string without one.
Attribute(el, name) == IF name \in DOMAIN el.attributes THEN el.attributes[name] ELSE <<>>

C15_CalendarClassIsAccumulated ==
  Shaped =>
    \A k \in DOMAIN Elements(Stripped.documentElement) :
      includes(toLowerCase(Attribute(Elements(Stripped.documentElement)[k], "class")),
               <<"c", "a", "l", "e", "n", "d", "a", "r">>)
      => includes(eventContent(Stripped),
                  getTextWithStructure(Elements(Stripped.documentElement)[k])
                    \o <<"\n", "\n">>)

\* C16: the shaped text begins with the URL line and a STRUCTURED DATA section
\* that holds the body of every application/ld+json script of the rendered
\* document, in document order, and the PAGE CONTENT label follows it.
C16_StructuredDataHoldsEveryLdJson ==
  Shaped =>
    IsPrefix(UrlLabel \o call.document.URL \o StructuredDataLabel
               \o structuredData(call.document) \o PageContentLabel,
             call.result)

\* Whether el matches keyword as the specification says: in its text
\* content, its class attribute or its id attribute, in any letter case.
Matches(el, keyword) ==
  \/ includes(toLowerCase(textContent(el)), keyword)
  \/ includes(toLowerCase(Attribute(el, "class")), keyword)
  \/ includes(toLowerCase(Attribute(el, "id")), keyword)

\* C17: the PAGE CONTENT block is the structured text of main, or of the body
\* without a main, when nothing was accumulated, and the accumulator alone
\* otherwise; nothing is accumulated when every matching element has at most
\* 50 characters of text.
C17_FallbackOnlyWhenNothingAccumulated ==
  Shaped =>
    /\ PageContentOf(call.result) =
         IF eventContent(Stripped) = <<>>
         THEN getTextWithStructure(mainOrBody(Stripped))
         ELSE eventContent(Stripped)
    /\ (\A k \in DOMAIN Elements(Stripped.documentElement) :
          (\E j \in DOMAIN eventKeywords :
             Matches(Elements(Stripped.documentElement)[k], eventKeywords[j]))
          => Len(textContent(Elements(Stripped.documentElement)[k])) <= 50)
       => PageContentOf(call.result) = getTextWithStructure(mainOrBody(Stripped))

\* C17, its case: the only matching element has 7 characters of text, and the
\* block is the structured text of main.
C17_Witness ==
  /\ Shaped
  /\ call.document = Document(PlainHead, <<CalendarShort, MainBlock>>)
  /\ PageContentOf(call.result) = getTextWithStructure(remove(MainBlock))
  /\ PageContentOf(call.result) # <<>>

\* C18: the accumulator is, for the keywords in order and for the elements in
\* document order, the structured text and a blank line of every element that
\* matches the keyword in its text content, class attribute or id attribute
\* and has over 50 characters of text, once for every keyword it matches.
C18_AccumulatorOfEveryMatch ==
  Shaped =>
    eventContent(Stripped) =
      FlatMap(LAMBDA keyword :
                FlatMap(LAMBDA el :
                          IF Matches(el, keyword) /\ Len(textContent(el)) > 50
                          THEN getTextWithStructure(el) \o <<"\n", "\n">>
                          ELSE <<>>,
                        Elements(Stripped.documentElement)),
              eventKeywords)

(***************************************************************************)
(* Properties of the incremental scroll (specification ScrollSpec).        *)
(***************************************************************************)
\* C19: every tick advances the scrolled total by 100; once the page has
\* stopped growing the timer is cleared, exactly once, the page is back at the
\* top, and the step resolves after the pause; the shaper and the screenshot
\* run only after the step resolved.
C19_ScrollTerminates ==
  /\ [][call'.totalHeight # call.totalHeight
          => call'.totalHeight = call.totalHeight + 100]_vars
  /\ [](call.timeout # "none"
          => call.timer = "cleared" /\ call.cleared = 1 /\ call.scrollY = 0)
  /\ [](pc # "scroll" => call.timeout = "fired")
  /\ <>(call.timeout = "fired" /\ call.timer = "cleared")
  /\ <>(pc = "close")

\* C19, its case: the page grew as often as it may while it was scrolled
\* beyond its first height, and the screenshot was taken.
C19_Witness ==
  /\ call.fn = "scroll"
  /\ pc = "close"
  /\ call.growths = MaxGrowths
  /\ call.totalHeight > 1500
  /\ call.timeout = "fired"

(***************************************************************************)
(* Properties of scrapeEvents (specification UISpec).                      *)
(***************************************************************************)
\* Whether scrapeEvents returns before it sends anything.
Blocked ==
  \/ call.selectedListId = ""
  \/ ~Truthy(call.apiKey)
  \/ find(call.lists, call.selectedListId) = <<>>
  \/ Len(selectedUrls) = 0

\* Whether a reply is a failure: a network exception, a status that is not
\* OK, a body that cannot be read, or an error payload.
Failed(reply) ==
  \/ reply.kind = "rejected"
  \/ reply.status \notin 200..299
  \/ reply.text \in {NotJson, Null}
  \/ Truthy(Get(reply.text, "error"))

====
